---- MODULE Spec2Model ----
(***************************************************************************)
(* State-machine model of src/multi-cam.py (class GUI): the training loop  *)
(* (prepare_train, train_step, the interactive frame loop and its          *)
(* callbacks, the non-interactive train) and the texture baking of         *)
(* save_model('geo+tex').                                                  *)
(*                                                                         *)
(* Abstractions.  An image is one pixel value; a reference image is the    *)
(* pair <<rgb, mask>>.  The primitive cloud is one value that the renderer *)
(* shows as both image and alpha.  step_ratio is the exact fraction        *)
(* <<numerator, denominator>>; a loss term is kept as the numerator of a   *)
(* fraction whose denominator is opt.iters.  Texel counts are integers in  *)
(* hundredths.  A camera of the rig is its elevation and its azimuth, in   *)
(* millionths of a degree.  A file written by save_model is the cloud it   *)
(* was written from.  An exception ends the thread it is raised in: the    *)
(* position "crashed".                                                     *)
(***************************************************************************)
EXTENDS Integers, Sequences, FiniteSets, TLC

VARIABLES
    opt,               \* self.opt, the shared options object
    step,              \* self.step
    training,          \* self.training
    optimizer,         \* self.optimizer is not None
    prompt,            \* self.prompt
    input_img,         \* self.input_img (with self.input_mask)
    input_img_torch,   \* self.input_img_torch (with self.input_mask_torch)
    multiImagesTorch,  \* self.multiImagesTorch (with self.multiMasksTorch)
    cameras,           \* self.cameras, the fixed multi-view rig
    enable_sd,         \* self.enable_sd
    enable_zero123,    \* self.enable_zero123
    guidance_sd,       \* self.guidance_sd: None, or <<text embeddings>>
    guidance_zero123,  \* self.guidance_zero123: None, or <<image embeddings>>
    cloud,             \* self.renderer.gaussians, as the value it renders to
    need_update,       \* self.need_update
    pc,                \* position of the control thread
    loop_i,            \* the loop variable i of train()
    log,               \* what the latest train_step since prepare_train computed
    albedo,            \* save_model: albedo, per texel
    cnt,               \* save_model: cnt, per texel (hundredths)
    view,              \* save_model: number of viewpoints processed
    cur,               \* save_model: cur_albedo / cur_cnt of the latest viewpoint
    search_region,     \* save_model: search_region, the donors of the hole filling
    poses,             \* save_model: the <<ver, hor>> given to orbit_camera so far
    bake_pc,           \* save_model: position inside the geo+tex branch
    artifacts,         \* the files save_model has written, per mode
    cam,               \* self.cam, the camera of the preview
    mode,              \* self.mode, the output of the render the preview shows
    overlay_input_img, \* self.overlay_input_img
    overlay_input_img_ratio,  \* self.overlay_input_img_ratio (tenths)
    buffer_image       \* self.buffer_image, by what it was rendered from

trainVars == <<opt, step, training, optimizer, prompt, input_img, input_img_torch,
               multiImagesTorch, cameras, enable_sd, enable_zero123, guidance_sd,
               guidance_zero123, cloud, need_update, pc, loop_i, log>>
atlasVars == <<albedo, cnt, view, cur, search_region, poses, bake_pc>>
bakeVars == <<atlasVars, artifacts>>
previewVars == <<cam, mode, overlay_input_img, overlay_input_img_ratio, buffer_image>>
vars == <<trainVars, bakeVars, previewVars>>

----------------------------------------------------------------------------
(* Bounds of the model *)

MaxStep == 12
MaxIters == 10
MaxElev == 90

AtlasSize == 18

(* Program constants *)

NumTiles == 16
Eps == 10
DilationIters == 32
ErosionIters == 3
ResLow == 128
ResMid == 256
ResHigh == 512
AngleStep == 17453

Modes == {"model", "geo", "geo+tex"}

None == <<>>
Pixels == {0, 1}
Prompts == {"", "a cat"}
InputFiles == {<<1, 1>>}
ImagesFiles == {0}
ElevChoices == {0, 60}
\* the poses of self.cam: 0 is the pose __init__ gives it
Cams == {0, 1}
RenderModes == {"image", "alpha"}
\* the values of the overlay ratio slider (tenths)
Ratios == {5, 8}

\* the pose archive read_pickle(opt.camerasFile) returns: the azimuths (in
\* millionths of a degree) and the extrinsic poses (named by their index) of
\* sixteen views spaced 22.5 degrees apart
CamerasFiles ==
    {[azs |-> [i \in 1..NumTiles |-> 22500000 * (i - 1)],
      poses |-> [i \in 1..NumTiles |-> i]]}

Min(a, b) == IF a < b THEN a ELSE b
Max(a, b) == IF a > b THEN a ELSE b

----------------------------------------------------------------------------
(* Pure helpers of train_step *)

NextStepBug(s) == s - 1
\* self.step += 1
NextStep(s) == s + 1

StepRatioBug(s, iters) == <<s, iters>>
\* step_ratio = min(1, self.step / self.opt.iters), as <<numerator, denominator>>
StepRatio(s, iters) == IF s > iters THEN <<iters, iters>> ELSE <<s, iters>>

\* r < a / b
RatioLt(r, a, b) == r[1] * b < a * r[2]

RenderResolutionBug(r) ==
    IF RatioLt(r, 3, 10) THEN ResLow ELSE IF RatioLt(r, 6, 10) THEN ResHigh ELSE ResMid
\* render_resolution = 128 if step_ratio < 0.3 else (256 if step_ratio < 0.6 else 512)
RenderResolution(r) ==
    IF RatioLt(r, 3, 10) THEN ResLow ELSE IF RatioLt(r, 6, 10) THEN ResMid ELSE ResHigh

\* min_ver = max(min(-30, -30 - elevation), -80 - elevation)
MinVer(E) == Max(Min(-30, -30 - E), -80 - E)

MaxVerBug(E) == Max(30, 30 - E)
\* max_ver = min(max(30, 30 - elevation), 80 - elevation)
MaxVer(E) == Min(Max(30, 30 - E), 80 - E)

\* the values np.random.randint(low, high) can return
RandInt(low, high) == low .. (high - 1)

\* F.mse_loss on one-pixel images
MSE(a, b) == (a - b) * (a - b)

\* self.renderer.render(cam): the image and alpha of the cloud
Render(c, camera) == [image |-> c, alpha |-> c]

\* self.guidance_sd.train_step(images, step_ratio): a score of the rendered batch
GuidanceSd(c) == 1 + c
\* self.guidance_zero123.train_step(images, vers, hors, radii, step_ratio)
GuidanceZero123(c) == 2 - c

\* the tile i (1-based) of the multi-view reference image, as <<rgb, mask>>
LoadMultiImage(file, i) == <<(i + file) % 2, 1>>

\* zip(azs, poses): one pair per index both sequences have
Zip(a, b) == [i \in 1..Min(Len(a), Len(b)) |-> <<a[i], b[i]>>]

\* the MiniCam built for the i-th (0-based) pair of the archive:
\* angle = 2*math.pi*i/360; pose = orbit_camera(self.opt.elevation, angle, radius),
\* orbit_camera reading its angles in degrees (here: millionths of a degree)
RigCamera(E, i, az, pose) == [elevation |-> E, azimuth |-> AngleStep * i]

\* no render
NoOut == [kind |-> "none", index |-> 0]

\* the render whose outputs `out` names once the loops of train_step are over
LastOutBug(renders) == renders[1]
LastOut(renders) == renders[Len(renders)]

\* loss + self.opt.known_view_weight * step_ratio * F.mse_loss(image, input_img_torch),
\* r the numerator of step_ratio
KnownRgbTerm(w, r, mse) == w * r * mse

KnownMaskTermBug(w, wmask, r, mse) == w * wmask * r * mse
\* loss + self.opt.known_view_mask_weight * step_ratio * F.mse_loss(mask, input_mask_torch)
KnownMaskTerm(w, wmask, r, mse) == wmask * r * mse

InWindowBug(s, start, end) == s >= start /\ s < end
\* if self.step >= self.opt.density_start_iter and self.step <= self.opt.density_end_iter
InWindow(s, start, end) == s >= start /\ s <= end

\* if self.step % self.opt.densification_interval == 0, inside the window test
DensifyDue(s, inwin, interval) == inwin /\ s % interval = 0

ResetOpacityDueBug(s, inwin, interval) == s % interval = 0
\* if self.step % self.opt.opacity_reset_interval == 0, inside the window test
ResetOpacityDue(s, inwin, interval) == inwin /\ s % interval = 0

EnableSdBug(lambda, p) == lambda > 0
\* self.enable_sd = self.opt.lambda_sd > 0 and self.prompt != ""
EnableSd(lambda, p) == lambda > 0 /\ p # ""

\* self.enable_zero123 = self.opt.lambda_zero123 > 0 and self.input_img is not None
EnableZero123(lambda, img) == lambda > 0 /\ img # None

\* the image compared against reference tile i in the multi-view rgb loss
MvImage(out, tiles, i) == tiles[i][1]
\* the mask compared against reference mask i in the multi-view mask loss
MvMask(out, tiles, i) == tiles[i][2]

InputTorchBug(img, old) == old
\* if self.input_img is not None: self.input_img_torch = ... self.input_img ...
InputTorch(img, old) == IF img # None THEN img ELSE old

\* if self.input_img_torch is not None
KnownViewActive(img, torch) == torch # None

\* self.buffer_image = np.ones((self.W, self.H, 3), dtype=np.float32)
BlankImage == [cloud |-> -1, cam |-> 0, mode |-> "image", overlay |-> None]

\* test_step's image: out[self.mode] of the render of the cloud from self.cam,
\* blended with the input image when the overlay is on and an image is loaded
Preview(c, camera, m, overlay, ratio, img) ==
    [cloud |-> c, cam |-> camera, mode |-> m,
     overlay |-> IF overlay /\ img # None THEN <<img, ratio>> ELSE None]

NoLog == [valid |-> FALSE, committed |-> FALSE, step |-> 0, step_ratio |-> <<0, 1>>,
          known |-> FALSE, known_rgb |-> 0, known_mask |-> 0,
          mv_render |-> <<>>, mv_rgb |-> <<>>, mv_mask |-> <<>>,
          render_resolution |-> 0, cam_res |-> <<>>, min_ver |-> 0, max_ver |-> 0,
          sd |-> FALSE, sd_term |-> 0, zero123 |-> FALSE, zero123_term |-> 0,
          loss |-> 0, renders |-> <<>>, stats |-> FALSE, stats_out |-> NoOut,
          densify |-> FALSE, reset_opacity |-> FALSE, trace |-> <<>>]

DensifyPhaseBug(stats, densify, reset) ==
    (IF stats THEN <<"max_radii2D", "add_densification_stats">> ELSE <<>>)
      \o (IF reset THEN <<"reset_opacity">> ELSE <<>>)
      \o (IF densify THEN <<"densify_and_prune">> ELSE <<>>)
\* the calls of the block under: if self.step >= density_start_iter and ..., in
\* program order
DensifyPhase(stats, densify, reset) ==
    (IF stats THEN <<"max_radii2D", "add_densification_stats">> ELSE <<>>)
      \o (IF densify THEN <<"densify_and_prune">> ELSE <<>>)
      \o (IF reset THEN <<"reset_opacity">> ELSE <<>>)

\* the calls of one pass of train_step's loop, in program order; a
\* loss.backward() that raises ends the pass
StepTrace(renders, committed, stats, densify, reset) ==
    <<"step += 1", "update_learning_rate">>
      \o [i \in 1..Len(renders) |-> "render"]
      \o <<"backward">>
      \o (IF committed
          THEN <<"optimizer.step", "zero_grad">> \o DensifyPhase(stats, densify, reset)
          ELSE <<>>)

Sum16(s) == s[1] + s[2] + s[3] + s[4] + s[5] + s[6] + s[7] + s[8]
          + s[9] + s[10] + s[11] + s[12] + s[13] + s[14] + s[15] + s[16]

----------------------------------------------------------------------------
(* save_model(mode='geo+tex'): the texture atlas *)

\* h = w = texture_size; the texel of row r and column c is numbered T(r, c)
Texels == 1..(AtlasSize * AtlasSize)
T(r, c) == (r - 1) * AtlasSize + c
Row(t) == ((t - 1) \div AtlasSize) + 1
Col(t) == ((t - 1) % AtlasSize) + 1

\* vers and hors of the baking viewpoints, in tenths of a degree
Vers == <<0, 0, 0, 0, 0, 0, 0, 0,
          -450, -450, -450, -450, -450, -450, -450, -450,
          450, 450, 450, 450, 450, 450, 450, 450, -899, 899>>
Hors == <<0, 450, -450, 900, -900, 1350, -1350, 1800,
          0, 450, -450, 900, -900, 1350, -1350, 1800,
          0, 450, -450, 900, -900, 1350, -1350, 1800, 0, 0>>
NumViews == Len(Vers)

ViewpointBug(k) == <<Vers[k], Hors[((k - 1) % 4) + 1]>>
\* the k-th pair of: for ver, hor in zip(vers, hors)
Viewpoint(k) == <<Vers[k], Hors[k]>>

\* What one viewpoint can see of the mesh: the texels its valid pixels splat
\* into, the weight w each receives (hundredths) and the surface colour c there.
FpCorner == {T(1, 1)}
FpBlock == {T(r, c) : r \in 1..7, c \in 4..10}
FpBand == {T(1, c) : c \in 1..5}
NoCur == [texels |-> {}, w |-> 0, c |-> 0]
Visible ==
    {NoCur}
      \cup [texels : {FpCorner}, w : {5, 100}, c : {1}]
      \cup [texels : {FpBlock}, w : {100}, c : {2}]
      \cup [texels : {FpBand}, w : {5}, c : {3}]

\* mipmap_linear_grid_put_2d(h, w, uvs, rgbs, return_count=True): cur_cnt at t
CurCnt(in, t) == IF t \in in.texels THEN in.w ELSE 0
\* mipmap_linear_grid_put_2d(h, w, uvs, rgbs, return_count=True): cur_albedo at t
CurAlbedo(in, t) == IF t \in in.texels THEN in.c * in.w ELSE 0

WriteMaskBug(c, t) == TRUE
\* mask = cnt.squeeze(-1) < 0.1, at t
WriteMask(c, t) == c[t] < Eps

\* mask = cnt.squeeze(-1) > 0
ValidMask(c) == {t \in Texels : c[t] > 0}

\* the four neighbours of the default structuring element; 0 stands for a
\* position outside the grid, which belongs to no region
Cross(t) ==
    {IF Row(t) > 1 THEN t - AtlasSize ELSE 0, IF Row(t) < AtlasSize THEN t + AtlasSize ELSE 0,
     IF Col(t) > 1 THEN t - 1 ELSE 0, IF Col(t) < AtlasSize THEN t + 1 ELSE 0}

RECURSIVE Dilation(_, _)
\* scipy.ndimage.binary_dilation(S, iterations=n)
Dilation(S, n) ==
    IF n = 0 THEN S
    ELSE Dilation({t \in Texels : t \in S \/ \E u \in Cross(t) : u \in S}, n - 1)

RECURSIVE Erosion(_, _)
\* scipy.ndimage.binary_erosion(S, iterations=n), border_value = 0
Erosion(S, n) ==
    IF n = 0 THEN S
    ELSE Erosion({t \in S : \A u \in Cross(t) : u \in S}, n - 1)

\* inpaint_region = binary_dilation(mask, iterations=32); inpaint_region[mask] = 0
InpaintRegion(mask) == Dilation(mask, DilationIters) \ mask

SearchRegionBug(mask) == Erosion(mask, ErosionIters)
\* search_region = mask.copy(); search_region[binary_erosion(mask, iterations=3)] = 0
SearchRegion(mask) == mask \ Erosion(mask, ErosionIters)

\* squared Euclidean pixel distance
Dist2(a, b) ==
    (Row(a) - Row(b)) * (Row(a) - Row(b)) + (Col(a) - Col(b)) * (Col(a) - Col(b))

NearestBug(h, S) == {CHOOSE d \in S : TRUE}
\* the texels of S that NearestNeighbors(n_neighbors=1).kneighbors can return for h
Nearest(h, S) ==
    LET ds == {Dist2(h, e) : e \in S}
        m == CHOOSE x \in ds : \A y \in ds : x <= y
    IN  {d \in S : Dist2(h, d) = m}

BakeIdle ==
    /\ artifacts = [m \in Modes |-> None]
    /\ albedo = <<>>
    /\ cnt = <<>>
    /\ view = 0
    /\ cur = NoCur
    /\ search_region = {}
    /\ poses = <<>>
    /\ bake_pc = "idle"

----------------------------------------------------------------------------
(* GUI.__init__ *)

AllOptions ==
    [gui : BOOLEAN, iters : {0, MaxIters - 3, MaxIters}, elevation : ElevChoices,
     lambda_sd : {0, 1}, lambda_zero123 : {0, 1}, imagesFile : ImagesFiles,
     camerasFile : CamerasFiles,
     batch_size : {2}, known_view_weight : {2}, known_view_mask_weight : {3},
     mv_weight : {1}, mv_mask_weight : {1},
     density_start_iter : {1, 2}, density_end_iter : {8},
     densification_interval : {2}, opacity_reset_interval : {3}]

\* the interactive runs are given a positive opt.iters
Options == {o \in AllOptions : o.iters > 0 \/ ~o.gui}

InitTrain(o) ==
    /\ opt = o
    /\ step = 0
    /\ training = FALSE
    /\ optimizer = FALSE
    /\ prompt \in Prompts
    /\ input_img \in {None} \cup InputFiles
    /\ input_img_torch = None
    /\ multiImagesTorch = <<>>
    /\ cameras = <<>>
    /\ enable_sd = FALSE
    /\ enable_zero123 = FALSE
    /\ guidance_sd = None
    /\ guidance_zero123 = None
    /\ cloud \in Pixels
    \* with a gui, __init__ ends with test_step(), which clears need_update
    /\ need_update = ~o.gui
    /\ pc = IF o.gui THEN "frame" ELSE "main"
    /\ loop_i = 0
    /\ log = NoLog
    /\ cam = 0
    /\ mode = "image"
    /\ overlay_input_img = FALSE
    /\ overlay_input_img_ratio = 5
    \* with a gui, __init__ ends with test_step(), which renders the preview
    /\ buffer_image = IF o.gui
                      THEN Preview(cloud, cam, mode, overlay_input_img,
                                   overlay_input_img_ratio, input_img)
                      ELSE BlankImage

Init == \E o \in Options : InitTrain(o) /\ BakeIdle

----------------------------------------------------------------------------
(* GUI.prepare_train *)

PrepareTrain ==
    /\ step' = 0
    /\ optimizer' = TRUE
    \* for i, (az, pose) in enumerate(zip(azs, poses)): cameras.append(MiniCam(...))
    /\ cameras' = LET pairs == Zip(opt.camerasFile.azs, opt.camerasFile.poses)
                  IN  [i \in 1..Len(pairs) |->
                         RigCamera(opt.elevation, i - 1, pairs[i][1], pairs[i][2])]
    /\ multiImagesTorch' = [i \in 1..NumTiles |-> LoadMultiImage(opt.imagesFile, i)]
    /\ enable_sd' = EnableSd(opt.lambda_sd, prompt)
    /\ enable_zero123' = EnableZero123(opt.lambda_zero123, input_img)
    \* lazy load, then get_text_embeds([self.prompt], ...)
    /\ guidance_sd' = IF enable_sd' THEN <<prompt>> ELSE guidance_sd
    /\ input_img_torch' = InputTorch(input_img, input_img_torch)
    \* lazy load, then get_img_embeds(self.input_img_torch)
    /\ guidance_zero123' = IF enable_zero123' THEN <<input_img_torch'>> ELSE guidance_zero123
    /\ log' = NoLog

----------------------------------------------------------------------------
(* GUI.train_step, with self.train_steps = 1 *)

\* the loss terms and the schedule of the step numbered s
StepLog(s) ==
    LET r == StepRatio(s, opt.iters)
        known == KnownViewActive(input_img, input_img_torch)
        outk == Render(cloud, "fixed_cam")
        krgb == IF known
                THEN KnownRgbTerm(opt.known_view_weight, r[1],
                                  MSE(outk.image, input_img_torch[1]))
                ELSE 0
        kmask == IF known
                 THEN KnownMaskTerm(opt.known_view_weight, opt.known_view_mask_weight, r[1],
                                    MSE(outk.alpha, input_img_torch[2]))
                 ELSE 0
        out == [i \in 1..NumTiles |-> Render(cloud, cameras[i])]
        mvrgb == [i \in 1..NumTiles |->
                    opt.mv_weight * r[1]
                      * MSE(MvImage(out[i], multiImagesTorch, i), multiImagesTorch[i][1])]
        mvmask == [i \in 1..NumTiles |->
                    opt.mv_mask_weight * r[1]
                      * MSE(MvMask(out[i], multiImagesTorch, i), multiImagesTorch[i][2])]
        res == RenderResolution(r)
        sdt == IF enable_sd THEN opt.lambda_sd * GuidanceSd(cloud) * r[2] ELSE 0
        zt == IF enable_zero123 THEN opt.lambda_zero123 * GuidanceZero123(cloud) * r[2] ELSE 0
        inwin == InWindow(s, opt.density_start_iter, opt.density_end_iter)
        \* loss.backward() raises unless some term of the loss carries a gradient
        committed == known \/ enable_sd \/ enable_zero123
        \* every self.renderer.render(...) of the step, in program order
        renders == (IF known THEN <<[kind |-> "known", index |-> 0]>> ELSE <<>>)
                     \o [i \in 1..NumTiles |-> [kind |-> "mv", index |-> i]]
                     \o [k \in 1..opt.batch_size |-> [kind |-> "novel", index |-> k]]
        stats == committed /\ inwin
        densify == committed /\ DensifyDue(s, inwin, opt.densification_interval)
        reset == committed /\ ResetOpacityDue(s, inwin, opt.opacity_reset_interval)
    IN  [valid |-> TRUE,
         committed |-> committed,
         step |-> s, step_ratio |-> r,
         known |-> known, known_rgb |-> krgb, known_mask |-> kmask,
         mv_render |-> out, mv_rgb |-> mvrgb, mv_mask |-> mvmask,
         render_resolution |-> res,
         cam_res |-> [k \in 1..opt.batch_size |-> res],
         min_ver |-> MinVer(opt.elevation), max_ver |-> MaxVer(opt.elevation),
         sd |-> enable_sd, sd_term |-> sdt,
         zero123 |-> enable_zero123, zero123_term |-> zt,
         loss |-> krgb + kmask + Sum16(mvrgb) + Sum16(mvmask) + sdt + zt,
         renders |-> renders,
         \* the densification phase follows loss.backward() and optimizer.step()
         stats |-> stats,
         stats_out |-> IF stats THEN LastOut(renders) ELSE NoOut,
         densify |-> densify,
         reset_opacity |-> reset,
         trace |-> StepTrace(renders, committed, stats, densify, reset)]

\* train_step, the caller continuing at `to`
TrainStep(to) ==
    /\ step < MaxStep
    /\ step' = NextStep(step)
    /\ IF optimizer
       THEN /\ log' = StepLog(step')
            /\ IF log'.committed
               THEN /\ \E c \in Pixels : cloud' = c      \* self.optimizer.step()
                    /\ need_update' = TRUE
                    /\ pc' = to
               ELSE /\ pc' = "crashed"            \* RuntimeError out of loss.backward()
                    /\ UNCHANGED <<cloud, need_update>>
       \* without prepare_train there is no optimizer to update or to step:
       \* the pass raises after self.step += 1
       ELSE /\ log' = [NoLog EXCEPT !.valid = TRUE, !.step = step']
            /\ pc' = "crashed"
            /\ UNCHANGED <<cloud, need_update>>
    /\ UNCHANGED <<opt, training, optimizer, prompt, input_img, input_img_torch,
                   multiImagesTorch, cameras, enable_sd, enable_zero123, guidance_sd,
                   guidance_zero123>>

----------------------------------------------------------------------------
(* GUI.render: the frame loop.  pc = "frame" is the loop's head: the callbacks *)
(* of the frame just drawn run there, before self.training is tested.        *)

\* while dpg.is_dearpygui_running(): if self.training: -- the test succeeds
\* and train_step is entered
RenderTestTraining ==
    /\ pc = "frame"
    /\ training
    /\ step < MaxStep
    /\ pc' = "frame_step"
    /\ UNCHANGED <<opt, step, training, optimizer, prompt, input_img, input_img_torch,
                   multiImagesTorch, cameras, enable_sd, enable_zero123, guidance_sd,
                   guidance_zero123, cloud, need_update, loop_i, log, bakeVars, previewVars>>

RenderTrainStepBug ==
    /\ pc = "frame_step"
    /\ IF training
       THEN TrainStep("frame_test")
       ELSE /\ pc' = "frame_test"
            /\ UNCHANGED <<opt, step, training, optimizer, prompt, input_img,
                           input_img_torch, multiImagesTorch, cameras, enable_sd,
                           enable_zero123, guidance_sd, guidance_zero123, cloud,
                           need_update, log>>
    /\ UNCHANGED <<loop_i, bakeVars, previewVars>>
\* self.train_step(), up to its return
RenderTrainStep ==
    /\ pc = "frame_step"
    /\ TrainStep("frame_test")
    /\ UNCHANGED <<loop_i, bakeVars, previewVars>>

RenderSkipTrain ==
    /\ pc = "frame"
    /\ ~training
    /\ pc' = "frame_test"
    /\ UNCHANGED <<opt, step, training, optimizer, prompt, input_img, input_img_torch,
                   multiImagesTorch, cameras, enable_sd, enable_zero123, guidance_sd,
                   guidance_zero123, cloud, need_update, loop_i, log, bakeVars, previewVars>>

TestStepBug ==
    /\ pc = "frame_test"
    /\ buffer_image' = Preview(cloud, cam, mode, overlay_input_img,
                               overlay_input_img_ratio, input_img)
    /\ need_update' = FALSE
    /\ pc' = "frame"
    /\ UNCHANGED <<opt, step, training, optimizer, prompt, input_img, input_img_torch,
                   multiImagesTorch, cameras, enable_sd, enable_zero123, guidance_sd,
                   guidance_zero123, cloud, loop_i, log, bakeVars, cam, mode,
                   overlay_input_img, overlay_input_img_ratio>>
\* self.test_step(), then dpg.render_dearpygui_frame() runs the pending callbacks
TestStep ==
    /\ pc = "frame_test"
    \* if not self.need_update: return
    /\ buffer_image' = IF need_update
                       THEN Preview(cloud, cam, mode, overlay_input_img,
                                    overlay_input_img_ratio, input_img)
                       ELSE buffer_image
    /\ need_update' = FALSE
    /\ pc' = "frame"
    /\ UNCHANGED <<opt, step, training, optimizer, prompt, input_img, input_img_torch,
                   multiImagesTorch, cameras, enable_sd, enable_zero123, guidance_sd,
                   guidance_zero123, cloud, loop_i, log, bakeVars, cam, mode,
                   overlay_input_img, overlay_input_img_ratio>>

\* callback_train, self.training being set.  It only assigns self.training,
\* which train_step and test_step never read: it is taken at any point of the
\* frame, also while a step is in progress.
CallbackTrainStop ==
    /\ pc \in {"frame", "frame_step", "frame_test"}
    /\ training
    /\ training' = FALSE
    /\ UNCHANGED <<opt, step, optimizer, prompt, input_img, input_img_torch,
                   multiImagesTorch, cameras, enable_sd, enable_zero123, guidance_sd,
                   guidance_zero123, cloud, need_update, pc, loop_i, log, bakeVars, previewVars>>

CallbackTrainStartBug ==
    /\ pc = "frame"
    /\ ~training
    /\ training' = TRUE
    /\ UNCHANGED <<opt, step, optimizer, prompt, input_img, input_img_torch,
                   multiImagesTorch, cameras, enable_sd, enable_zero123, guidance_sd,
                   guidance_zero123, cloud, need_update, pc, loop_i, log, bakeVars, previewVars>>
\* callback_train, self.training being clear: self.prepare_train(), then
\* self.training = True
CallbackTrainStart ==
    /\ pc = "frame"
    /\ ~training
    /\ PrepareTrain
    /\ training' = TRUE
    /\ UNCHANGED <<opt, prompt, input_img, cloud, need_update, pc, loop_i, bakeVars, previewVars>>

CallbackRestart ==
    /\ pc = "frame"
    /\ \E c \in Pixels : cloud' = c       \* self.renderer.initialize(num_pts=...)
    /\ PrepareTrain
    /\ training' = FALSE
    /\ UNCHANGED <<opt, prompt, input_img, need_update, pc, loop_i, bakeVars, previewVars>>

\* callback_setattr with user_data = "prompt"
CallbackSetPrompt ==
    /\ pc = "frame"
    /\ \E p \in Prompts : prompt' = p
    /\ UNCHANGED <<opt, step, training, optimizer, input_img, input_img_torch,
                   multiImagesTorch, cameras, enable_sd, enable_zero123, guidance_sd,
                   guidance_zero123, cloud, need_update, pc, loop_i, log, bakeVars, previewVars>>

\* callback_select_input: load_input(file), then need_update = True
CallbackSelectInput ==
    /\ pc = "frame"
    /\ \E f \in InputFiles : input_img' = f
    /\ need_update' = TRUE
    /\ UNCHANGED <<opt, step, training, optimizer, prompt, input_img_torch,
                   multiImagesTorch, cameras, enable_sd, enable_zero123, guidance_sd,
                   guidance_zero123, cloud, pc, loop_i, log, bakeVars, previewVars>>

\* callback_set_opt_attr with user_data = "elevation"
CallbackSetElevation ==
    /\ pc = "frame"
    /\ \E e \in ElevChoices : opt' = [opt EXCEPT !.elevation = e]
    /\ UNCHANGED <<step, training, optimizer, prompt, input_img, input_img_torch,
                   multiImagesTorch, cameras, enable_sd, enable_zero123, guidance_sd,
                   guidance_zero123, cloud, need_update, pc, loop_i, log, bakeVars, previewVars>>

----------------------------------------------------------------------------
(* GUI.train: the non-interactive run *)

LoopContinuesBug(i, iters) == i <= iters
\* for i in tqdm.trange(iters): the loop has a pass left after i passes
LoopContinues(i, iters) == i < iters

\* if iters > 0: self.prepare_train()
TrainBegin ==
    /\ pc = "main"
    /\ opt.iters > 0
    /\ PrepareTrain
    /\ loop_i' = 0
    /\ pc' = "train_loop"
    /\ UNCHANGED <<opt, training, prompt, input_img, cloud, need_update, bakeVars, previewVars>>

\* if iters > 0: is false
TrainSkip ==
    /\ pc = "main"
    /\ ~(opt.iters > 0)
    /\ pc' = "save_model"
    /\ UNCHANGED <<opt, step, training, optimizer, prompt, input_img, input_img_torch,
                   multiImagesTorch, cameras, enable_sd, enable_zero123, guidance_sd,
                   guidance_zero123, cloud, need_update, loop_i, log, bakeVars, previewVars>>

\* for i in tqdm.trange(iters): self.train_step()
TrainLoopStep ==
    /\ pc = "train_loop"
    /\ LoopContinues(loop_i, opt.iters)
    /\ TrainStep("train_loop")
    /\ loop_i' = loop_i + 1
    /\ UNCHANGED <<bakeVars, previewVars>>

\* the loop is over: self.renderer.gaussians.prune(min_opacity=0.01, ...)
TrainPrune ==
    /\ pc = "train_loop"
    /\ ~LoopContinues(loop_i, opt.iters)
    /\ \E c \in Pixels : cloud' = c       \* self.renderer.gaussians.prune(...)
    /\ pc' = "save_model"
    /\ UNCHANGED <<opt, step, training, optimizer, prompt, input_img, input_img_torch,
                   multiImagesTorch, cameras, enable_sd, enable_zero123, guidance_sd,
                   guidance_zero123, need_update, loop_i, log, bakeVars, previewVars>>

SaveModelBug(m, raises) ==
    /\ artifacts' = IF raises THEN artifacts ELSE [artifacts EXCEPT ![m] = <<cloud>>]
    /\ step' = 0
    /\ UNCHANGED <<opt, training, optimizer, prompt, input_img, input_img_torch,
                   multiImagesTorch, cameras, enable_sd, enable_zero123, guidance_sd,
                   guidance_zero123, cloud, need_update, loop_i, log, atlasVars, previewVars>>
\* save_model(mode) as one step: the file of that mode is written from the
\* cloud; with raises, the exception of the texture baking leaves no file
SaveModel(m, raises) ==
    /\ artifacts' = IF raises THEN artifacts ELSE [artifacts EXCEPT ![m] = <<cloud>>]
    /\ UNCHANGED <<opt, step, training, optimizer, prompt, input_img, input_img_torch,
                   multiImagesTorch, cameras, enable_sd, enable_zero123, guidance_sd,
                   guidance_zero123, cloud, need_update, loop_i, log, atlasVars, previewVars>>

\* self.save_model(mode='model')
TrainSaveModel ==
    /\ pc = "save_model"
    /\ SaveModel("model", FALSE)
    /\ pc' = "save_geo_tex"

\* self.save_model(mode='geo+tex'): it returns, or the hole filling raises
TrainSaveGeoTex ==
    /\ pc = "save_geo_tex"
    /\ \E raises \in BOOLEAN :
          /\ SaveModel("geo+tex", raises)
          /\ pc' = IF raises THEN "crashed" ELSE "done"

Next ==
    \/ RenderTestTraining
    \/ RenderTrainStep
    \/ RenderSkipTrain
    \/ TestStep
    \/ CallbackTrainStop
    \/ CallbackTrainStart
    \/ CallbackRestart
    \/ CallbackSetPrompt
    \/ CallbackSelectInput
    \/ CallbackSetElevation
    \/ TrainBegin
    \/ TrainSkip
    \/ TrainLoopStep
    \/ TrainPrune
    \/ TrainSaveModel
    \/ TrainSaveGeoTex

Spec == Init /\ [][Next]_vars

----------------------------------------------------------------------------
(* The run of novel-view sampling over every base elevation: the           *)
(* non-interactive run, one configuration per elevation.                   *)

InitElev ==
    \E o \in Options, e \in (-MaxElev)..MaxElev :
        /\ ~o.gui /\ o.iters = MaxIters /\ o.lambda_sd = 1 /\ o.lambda_zero123 = 0
        /\ o.elevation = 0 /\ o.density_start_iter = 2
        /\ InitTrain([o EXCEPT !.elevation = e])
        /\ prompt # ""
        /\ BakeIdle

NextElev ==
    \/ TrainBegin
    \/ TrainLoopStep
    \/ TrainPrune
    \/ TrainSaveModel
    \/ TrainSaveGeoTex

SpecElev == InitElev /\ [][NextElev]_vars

----------------------------------------------------------------------------
(* The non-interactive run alone: gui.train(opt.iters) is one thread that   *)
(* runs until it returns or raises.                                        *)

InitMain == \E o \in Options : ~o.gui /\ InitTrain(o) /\ BakeIdle

NextTrain ==
    \/ TrainBegin
    \/ TrainSkip
    \/ TrainLoopStep
    \/ TrainPrune
    \/ TrainSaveModel
    \/ TrainSaveGeoTex

SpecTrain == InitMain /\ [][NextTrain]_vars /\ WF_vars(NextTrain)

----------------------------------------------------------------------------
(* The non-interactive run with a known view, over a range of its weights. *)

MaxWeight == 3

InitLoss ==
    \E o \in Options, w \in 0..MaxWeight, wmask \in 0..MaxWeight :
        /\ ~o.gui /\ o.iters = MaxIters /\ o.lambda_sd = 0 /\ o.lambda_zero123 = 0
        /\ o.elevation = 0 /\ o.density_start_iter = 2
        /\ InitTrain([o EXCEPT !.known_view_weight = w, !.known_view_mask_weight = wmask])
        /\ prompt = "" /\ input_img # None
        /\ BakeIdle

SpecLoss == InitLoss /\ [][NextElev]_vars

----------------------------------------------------------------------------
(* The interactive run with the controls of the preview, for one            *)
(* configuration that trains with text guidance.                            *)

TrainUnchanged ==
    UNCHANGED <<opt, step, training, optimizer, prompt, input_img, input_img_torch,
                multiImagesTorch, cameras, enable_sd, enable_zero123, guidance_sd,
                guidance_zero123, cloud, pc, loop_i, log, bakeVars>>

\* callback_camera_drag_rotate_or_draw_mask, callback_camera_wheel_scale and
\* callback_camera_drag_pan: nothing unless the primary window has the focus;
\* self.cam.orbit / scale / pan, then need_update = True
CallbackCamera ==
    /\ pc = "frame"
    /\ \E focused \in BOOLEAN, c \in Cams :
          IF ~focused
          THEN UNCHANGED <<cam, need_update>>
          ELSE cam' = c /\ need_update' = TRUE
    /\ TrainUnchanged
    /\ UNCHANGED <<mode, overlay_input_img, overlay_input_img_ratio, buffer_image>>

\* callback_set_fovy: self.cam.fovy = ..., then need_update = True
CallbackSetFovy ==
    /\ pc = "frame"
    /\ \E c \in Cams : cam' = c
    /\ need_update' = TRUE
    /\ TrainUnchanged
    /\ UNCHANGED <<mode, overlay_input_img, overlay_input_img_ratio, buffer_image>>

\* callback_change_mode: self.mode = app_data, then need_update = True
CallbackChangeMode ==
    /\ pc = "frame"
    /\ \E m \in RenderModes : mode' = m
    /\ need_update' = TRUE
    /\ TrainUnchanged
    /\ UNCHANGED <<cam, overlay_input_img, overlay_input_img_ratio, buffer_image>>

\* callback_toggle_overlay_input_img
CallbackToggleOverlayInputImg ==
    /\ pc = "frame"
    /\ overlay_input_img' = ~overlay_input_img
    /\ need_update' = TRUE
    /\ TrainUnchanged
    /\ UNCHANGED <<cam, mode, overlay_input_img_ratio, buffer_image>>

\* callback_set_overlay_input_img_ratio
CallbackSetOverlayInputImgRatio ==
    /\ pc = "frame"
    /\ \E r \in Ratios : overlay_input_img_ratio' = r
    /\ need_update' = TRUE
    /\ TrainUnchanged
    /\ UNCHANGED <<cam, mode, overlay_input_img, buffer_image>>

InitPreview ==
    \E o \in Options :
        /\ o.gui /\ o.iters = MaxIters /\ o.lambda_sd = 1 /\ o.lambda_zero123 = 0
        /\ o.elevation = 0 /\ o.density_start_iter = 2
        /\ InitTrain(o)
        /\ prompt # ""
        /\ BakeIdle

NextPreview ==
    \/ RenderTestTraining
    \/ RenderTrainStep
    \/ RenderSkipTrain
    \/ TestStep
    \/ CallbackTrainStop
    \/ CallbackTrainStart
    \/ CallbackRestart
    \/ CallbackSelectInput
    \/ CallbackCamera
    \/ CallbackSetFovy
    \/ CallbackChangeMode
    \/ CallbackToggleOverlayInputImg
    \/ CallbackSetOverlayInputImgRatio

SpecPreview == InitPreview /\ [][NextPreview]_vars

----------------------------------------------------------------------------
(* The interactive run with its three save buttons, for one configuration  *)
(* that trains with text guidance.                                         *)

\* callback_save: self.save_model(mode=user_data); an exception of the texture
\* baking ends the callback, not the frame loop
CallbackSave ==
    /\ pc = "frame"
    /\ \E m \in Modes, raises \in BOOLEAN :
          /\ raises => m = "geo+tex"
          /\ SaveModel(m, raises)
    /\ pc' = pc

InitSave ==
    /\ \E o \in Options :
          /\ o.gui /\ o.iters = MaxIters /\ o.lambda_sd = 1 /\ o.lambda_zero123 = 0
          /\ o.elevation = 0 /\ o.density_start_iter = 2
          /\ InitTrain(o)
    /\ prompt # "" /\ input_img = None
    /\ BakeIdle

NextSave ==
    \/ RenderTestTraining
    \/ RenderTrainStep
    \/ RenderSkipTrain
    \/ TestStep
    \/ CallbackTrainStop
    \/ CallbackTrainStart
    \/ CallbackSave

SpecSave == InitSave /\ [][NextSave]_vars

----------------------------------------------------------------------------
(* GUI.save_model(mode='geo+tex'), step by step, called by callback_save *)

\* callback_save with mode 'geo+tex': a first call, or one more after a call
\* has returned or raised
SaveModelBegin ==
    /\ bake_pc \in {"idle", "done", "crashed"}
    /\ albedo' = [t \in Texels |-> 0]
    /\ cnt' = [t \in Texels |-> 0]
    /\ view' = 0
    /\ cur' = NoCur
    /\ search_region' = {}
    /\ poses' = <<>>
    /\ bake_pc' = "project"
    /\ UNCHANGED <<artifacts, trainVars, previewVars>>

\* one pass of: for ver, hor in zip(vers, hors)
ProjectView ==
    /\ bake_pc = "project"
    /\ view < NumViews
    /\ \E in \in Visible :
          /\ cur' = in
          \* albedo[mask] += cur_albedo[mask]
          /\ albedo' = [t \in Texels |->
                          IF WriteMask(cnt, t) THEN albedo[t] + CurAlbedo(in, t) ELSE albedo[t]]
          \* cnt[mask] += cur_cnt[mask]
          /\ cnt' = [t \in Texels |->
                          IF WriteMask(cnt, t) THEN cnt[t] + CurCnt(in, t) ELSE cnt[t]]
    \* pose = orbit_camera(ver, hor, self.cam.radius)
    /\ poses' = Append(poses, Viewpoint(view + 1))
    /\ view' = view + 1
    /\ UNCHANGED <<search_region, bake_pc, artifacts, trainVars, previewVars>>

\* albedo[mask] = albedo[mask] / cnt[mask].repeat(1, 3), in hundredths of a colour
Normalize ==
    /\ bake_pc = "project"
    /\ view = NumViews
    /\ albedo' = [t \in Texels |->
                    IF cnt[t] > 0 THEN (albedo[t] * 100) \div cnt[t] ELSE albedo[t]]
    /\ cur' = NoCur
    /\ bake_pc' = "fill"
    /\ UNCHANGED <<cnt, view, search_region, poses, artifacts, trainVars, previewVars>>

\* the "dilate texture" block, up to mesh.write(path)
HoleFill ==
    /\ bake_pc = "fill"
    /\ \E mask \in {ValidMask(cnt)} :
       \E inpaint \in {InpaintRegion(mask)}, search \in {SearchRegion(mask)} :
          /\ search_region' = search
          /\ IF search = {} \/ inpaint = {}
             THEN \* NearestNeighbors raises ValueError on an array of 0 samples
                  /\ bake_pc' = "crashed"
                  /\ UNCHANGED <<albedo, artifacts>>
             ELSE \E near \in {[h \in inpaint |-> Nearest(h, search)]} :
                  \E ties \in {{h \in inpaint : \E d, e \in near[h] : albedo[d] # albedo[e]}} :
                  \E pick \in [ties -> {albedo[d] : d \in search}] :
                     /\ \A h \in ties : \E d \in near[h] : pick[h] = albedo[d]
                     \* albedo[inpaint_coords] = albedo[search_coords[indices[:, 0]]]
                     /\ albedo' = [t \in Texels |->
                                     IF t \in ties THEN pick[t]
                                     ELSE IF t \in inpaint
                                          THEN albedo[CHOOSE d \in near[t] : TRUE]
                                          ELSE albedo[t]]
                     \* mesh.albedo = ...; mesh.write(path)
                     /\ artifacts' = [artifacts EXCEPT !["geo+tex"] = <<cloud>>]
                     /\ bake_pc' = "done"
    /\ UNCHANGED <<cnt, view, cur, poses, trainVars, previewVars>>

InitBake ==
    /\ \E o \in Options :
          /\ o.gui /\ o.iters = MaxIters /\ o.lambda_sd = 0 /\ o.lambda_zero123 = 0
          /\ o.elevation = 0 /\ o.density_start_iter = 2
          /\ InitTrain(o)
    /\ prompt = "" /\ input_img = None /\ cloud = 1
    /\ BakeIdle

NextBake ==
    \/ SaveModelBegin
    \/ ProjectView
    \/ Normalize
    \/ HoleFill

SpecBake == InitBake /\ [][NextBake]_vars

----------------------------------------------------------------------------
(* Claims *)

\* a train_step has run in this transition
TrainStepRan == log'.valid /\ log' # log

\* prepare_train has run in this transition
PrepareRan == CallbackTrainStart \/ CallbackRestart \/ TrainBegin

\* C1 (as claimed): in every training step, for each camera i of the rig, the
\* multi-view term compares the image and alpha rendered from camera i against
\* reference tile i and its mask, so the term is non-zero whenever the render
\* differs from the reference.
C1_MvTermDependsOnRender ==
    (log.valid /\ log.committed) =>
        \A i \in 1..NumTiles :
            /\ (opt.mv_weight > 0 /\ log.mv_render[i].image # multiImagesTorch[i][1])
                  => log.mv_rgb[i] # 0
            /\ (opt.mv_mask_weight > 0 /\ log.mv_render[i].alpha # multiImagesTorch[i][2])
                  => log.mv_mask[i] # 0

\* C2 (as claimed): across train_step, prepare_train, the start/stop toggle and
\* restart, the step counter never decreases.
C2_StepNeverDecreases == [][step' >= step]_vars

\* C2 (amended): the step counter never decreases except when prepare_train runs
\* (start toggle, restart, start of train), which resets it to 0; a train_step
\* advances it by exactly one and nothing else changes it.
C2_StepDecreasesOnlyOnPrepare ==
    [][/\ step' < step => (PrepareRan /\ step' = 0)
       /\ TrainStepRan => step' = step + 1
       /\ (~PrepareRan /\ ~TrainStepRan) => step' = step]_vars

\* C2 witness: training was stopped at a positive step, from where the start
\* toggle and restart run prepare_train.
C2_Witness == opt.gui /\ pc = "frame" /\ ~training /\ step = MaxStep

\* C3 (as claimed): at every training step, under any interleaving of prompt and
\* input-image edits, the text-guidance term contributes only if lambda_sd > 0
\* and the current prompt is non-empty, the image-guidance term only if
\* lambda_zero123 > 0 and a conditioning image is present, and a disabled term
\* adds nothing.
C3_GuidanceGatedOnCurrentInputs ==
    [][TrainStepRan =>
          /\ log'.sd => (opt.lambda_sd > 0 /\ prompt # "")
          /\ log'.zero123 => (opt.lambda_zero123 > 0 /\ input_img # None)
          /\ ~log'.sd => log'.sd_term = 0
          /\ ~log'.zero123 => log'.zero123_term = 0]_vars

\* C3 (amended): at every training step the text-guidance term contributes only
\* if lambda_sd > 0 and the prompt embedded by the latest prepare_train was
\* non-empty (the current prompt may since have been cleared), the image-guidance
\* term only if lambda_zero123 > 0 and a conditioning image is present; a disabled
\* term adds nothing to the loss.
C3_GuidanceGatedOnPreparedInputs ==
    log.valid =>
        /\ log.sd => (opt.lambda_sd > 0 /\ guidance_sd # None /\ guidance_sd[1] # "")
        /\ log.zero123 => (opt.lambda_zero123 > 0 /\ input_img # None
                             /\ guidance_zero123 # None /\ guidance_zero123[1] # None)
        /\ ~log.sd => log.sd_term = 0
        /\ ~log.zero123 => log.zero123_term = 0
        /\ log.loss = log.known_rgb + log.known_mask + Sum16(log.mv_rgb)
                        + Sum16(log.mv_mask) + log.sd_term + log.zero123_term

\* C3 witness: a step used text guidance although the prompt is now empty.
C3_Witness == log.valid /\ log.sd /\ log.sd_term > 0 /\ prompt = "" /\ training

\* C4 (as claimed): in every training step executed while input_img is set, the
\* known-view rgb and mask terms are included in the loss, for any order of
\* load_input, prepare_train and train_step.
C4_KnownViewWheneverLoaded ==
    [][(TrainStepRan /\ log'.committed /\ input_img # None) => log'.known]_vars

\* C4 (amended): a training step includes the known-view rgb and mask terms iff
\* input_img_torch is set, and it is prepare_train that sets input_img_torch from
\* input_img; an image loaded after the latest prepare_train is not used until
\* prepare_train runs again.
C4_KnownViewWhenPrepared ==
    [][/\ TrainStepRan => (log'.known <=> input_img_torch # None)
       /\ (PrepareRan /\ input_img # None) => input_img_torch' = input_img
       /\ ~PrepareRan => input_img_torch' = input_img_torch]_vars

\* C4 witness: a step ran with an image loaded but not yet prepared.
C4_Witness ==
    log.valid /\ log.committed /\ ~log.known /\ input_img # None /\ input_img_torch = None

\* C9: in every training step the novel-view render resolution is 128 when
\* step_ratio < 0.3, 256 when 0.3 <= step_ratio < 0.6 and 512 otherwise, and every
\* novel-view camera of the batch uses it.
C9_ResolutionStaged ==
    log.valid =>
        LET n == log.step_ratio[1]
            d == log.step_ratio[2]
        IN  /\ 10 * n < 3 * d => log.render_resolution = 128
            /\ (10 * n >= 3 * d /\ 10 * n < 6 * d) => log.render_resolution = 256
            /\ 10 * n >= 6 * d => log.render_resolution = 512
            /\ Len(log.cam_res) = opt.batch_size
            /\ \A k \in 1..opt.batch_size : log.cam_res[k] = log.render_resolution

\* C9 witness: a step exactly at the 0.3 breakpoint rendered at 256.
C9_Witness ==
    log.valid /\ 10 * log.step_ratio[1] = 3 * log.step_ratio[2]
              /\ log.render_resolution = 256

\* C10 (as claimed): at every training step, in both modes, step_ratio equals
\* step / total_iterations and lies in [0, 1].
C10_RatioIsStepOverIters ==
    log.valid =>
        /\ log.step_ratio[1] * opt.iters = log.step * log.step_ratio[2]
        /\ 0 <= log.step_ratio[1] /\ log.step_ratio[1] <= log.step_ratio[2]

\* C10 (amended): at every training step step_ratio = min(1, step / iters): it
\* equals step / iters while step <= iters (always so in non-interactive mode) and
\* is 1 once interactive training has passed iters; it lies in (0, 1].
C10_RatioIsClampedStepOverIters ==
    log.valid =>
        /\ log.step = step
        /\ log.step_ratio[2] = opt.iters
        /\ log.step <= opt.iters => log.step_ratio[1] = log.step
        /\ log.step > opt.iters => log.step_ratio[1] = opt.iters
        /\ 0 < log.step_ratio[1] /\ log.step_ratio[1] <= log.step_ratio[2]
        /\ ~opt.gui => log.step <= opt.iters

\* C10 witness: an interactive step beyond the configured iteration count.
C10_Witness == log.valid /\ opt.gui /\ log.step > opt.iters /\ log.step_ratio[1] = opt.iters

\* C7 (as claimed): for every base elevation E, the absolute elevations E + ver
\* that sampling can produce cover [-30, 30] and [E-30, E+30], each intersected
\* with [-80, 80], end points included.
C7_CoversClosedRanges ==
    log.valid =>
        \A a \in (((-30)..30) \cup ((opt.elevation - 30)..(opt.elevation + 30)))
                    \cap ((-80)..80) :
            (a - opt.elevation) \in RandInt(log.min_ver, log.max_ver)

\* C8: for every base elevation E the sampling range [min_ver, max_ver) is
\* non-empty and every sampled absolute elevation E + ver lies in [-80, 80].
C8_RangeNonEmptyWithinBounds ==
    log.valid =>
        /\ log.min_ver < log.max_ver
        /\ RandInt(log.min_ver, log.max_ver) # {}
        /\ \A v \in RandInt(log.min_ver, log.max_ver) :
              opt.elevation + v >= -80 /\ opt.elevation + v <= 80

\* C8 witness: a step at base elevation 60, where the upper clamp is active.
C8_Witness == log.valid /\ opt.elevation = 60 /\ log.max_ver = 20 /\ log.min_ver = -90

\* a viewpoint was projected in this transition
ViewProjected == bake_pc = "project" /\ bake_pc' = "project" /\ view' = view + 1

\* C5: during baking, once a texel's accumulated count is at or above the 0.1
\* epsilon, no later viewpoint changes its accumulated colour or count; the
\* texels still below the epsilon, and only they, receive the current viewpoint's
\* contribution.
C5_FirstSufficientViewWins ==
    [][ViewProjected =>
          \A t \in Texels :
              /\ cnt[t] >= Eps => (albedo'[t] = albedo[t] /\ cnt'[t] = cnt[t])
              /\ cnt[t] < Eps =>
                    /\ cnt'[t] = cnt[t] + (IF t \in cur'.texels THEN cur'.w ELSE 0)
                    /\ albedo'[t] = albedo[t]
                                      + (IF t \in cur'.texels THEN cur'.c * cur'.w ELSE 0)]_vars

\* C5 witness: texel (1,1) was filled by a full view of colour 1, and the latest
\* viewpoint, which saw it with colour 3, left it as it was; texel (1,2), still
\* below the epsilon, took that viewpoint's contribution.
C5_Witness ==
    /\ bake_pc = "project"
    /\ cur.texels = FpBand
    /\ cnt[T(1, 1)] = 100 /\ albedo[T(1, 1)] = 100
    /\ cnt[T(1, 2)] = 10 /\ albedo[T(1, 2)] = 30

\* Manhattan distance, the metric of the iterated cross-shaped dilation
Dist1(a, b) ==
    (IF Row(a) > Row(b) THEN Row(a) - Row(b) ELSE Row(b) - Row(a))
      + (IF Col(a) > Col(b) THEN Col(a) - Col(b) ELSE Col(b) - Col(a))

\* h holds the colour of one of the donors, one that is nearest to h among all
\* the valid texels
HoldsNearestDonor(h, donors, valid) ==
    \E ds \in {{Dist2(h, e) : e \in valid}} :
    \E m \in ds :
        /\ \A y \in ds : m <= y
        /\ \E d \in donors : albedo[h] = albedo[d] /\ Dist2(h, d) = m

\* C6 (as claimed): after hole filling every texel with count == 0, at any
\* distance from the valid region, holds the colour of a donor texel at minimal
\* Euclidean pixel distance from it.
C6_EveryHoleFilled ==
    bake_pc = "done" =>
        \E valid \in {{t \in Texels : cnt[t] > 0}} :
        \E donors \in {SearchRegion(valid)} :
            \A h \in Texels \ valid : HoldsNearestDonor(h, donors, valid)

\* C6 (amended): after hole filling every texel with count == 0 that lies within
\* the fill frontier (32 dilation steps, i.e. city-block distance at most 32, of
\* a valid texel) holds the colour of a donor texel at minimal Euclidean pixel
\* distance from it, so a hole with donors at distance 1 and 2 takes the
\* distance-1 donor's colour; holes beyond the frontier are left unfilled.
C6_HolesInFrontierFilled ==
    bake_pc = "done" =>
        \E valid \in {{t \in Texels : cnt[t] > 0}} :
        \E donors \in {SearchRegion(valid)} :
            \A h \in Texels \ valid :
                IF \E v \in valid : Dist1(h, v) <= DilationIters
                THEN HoldsNearestDonor(h, donors, valid)
                ELSE albedo[h] = 0

\* C6 witness: hole (1,2) has the donor (1,1) of colour 1 at distance 1 and the
\* donor (1,4) of colour 2 at distance 2, and took colour 1.
C6_Witness ==
    /\ bake_pc = "done"
    /\ cnt[T(1, 1)] = 100 /\ albedo[T(1, 1)] = 100
    /\ cnt[T(1, 2)] = 0 /\ cnt[T(1, 3)] = 0
    /\ cnt[T(1, 4)] = 100 /\ albedo[T(1, 4)] = 200
    /\ albedo[T(1, 2)] = 100

\* C11: in a training step that gets past loss.backward() and optimizer.step(),
\* add_densification_stats is called iff density_start_iter <= step <=
\* density_end_iter, and densify_and_prune is called iff the step is in that
\* window and is a multiple of densification_interval; outside the window
\* neither is called.  (A step whose loss.backward() raises calls neither.)
C11_DensifyInWindowOnly ==
    log.valid =>
        LET inwin == opt.density_start_iter <= log.step /\ log.step <= opt.density_end_iter
        IN  /\ log.committed =>
                  /\ log.stats <=> inwin
                  /\ log.densify <=> (inwin /\ log.step % opt.densification_interval = 0)
            /\ ~inwin => (~log.stats /\ ~log.densify)
            /\ ~log.committed => (~log.stats /\ ~log.densify)

\* C11 witness: the step numbered density_end_iter, the last of the window,
\* recorded the statistics and densified.
C11_Witness ==
    log.valid /\ log.committed /\ log.step = opt.density_end_iter
              /\ log.stats /\ log.densify

\* C12 (as claimed): reset_opacity is invoked at every training step whose
\* number is a multiple of opacity_reset_interval.
C12_ResetOnEveryMultiple ==
    (log.valid /\ log.committed) =>
        (log.reset_opacity <=> log.step % opt.opacity_reset_interval = 0)

\* C12 (amended): reset_opacity is invoked at a training step (one that gets
\* past the optimizer step) iff the step lies in the densification window and
\* its number is a multiple of opacity_reset_interval, whether or not
\* densify_and_prune runs at that step; outside the window it is never invoked.
C12_ResetOnMultiplesInWindow ==
    log.valid =>
        LET inwin == opt.density_start_iter <= log.step /\ log.step <= opt.density_end_iter
        IN  log.reset_opacity <=>
               (log.committed /\ inwin /\ log.step % opt.opacity_reset_interval = 0)

\* C12 witness: the step numbered opacity_reset_interval, inside the window,
\* reset the opacities without densifying.
C12_Witness ==
    log.valid /\ log.committed /\ log.step = opt.opacity_reset_interval
              /\ log.reset_opacity /\ ~log.densify

\* C13: in every training step inside the densification window, the screen-space
\* points, visibility filter and radii used to update max_radii2D and passed to
\* add_densification_stats are those of the render of the last novel-view
\* sample of the step's batch, never those of a known-view, multi-view or
\* earlier novel-view render.
C13_StatsFromLastNovelView ==
    log.valid =>
        /\ log.stats =>
              /\ log.stats_out = [kind |-> "novel", index |-> opt.batch_size]
              /\ log.renders[Len(log.renders)] = log.stats_out
              /\ \A j \in 1..(Len(log.renders) - 1) : log.renders[j] # log.stats_out
        /\ ~log.stats => log.stats_out = NoOut

\* C13 witness: a step in the window that rendered the known view, the rig and
\* two novel views, and took the statistics.
C13_Witness ==
    log.valid /\ log.stats /\ log.known /\ log.stats_out.kind = "novel"
              /\ Len(log.renders) = 1 + NumTiles + opt.batch_size

\* a training step runs only as a pass of the loop, the passes counted by step
C14_StepInsideLoop ==
    TrainStepRan =>
        (pc = "train_loop" /\ loop_i < opt.iters /\ loop_i' = loop_i + 1 /\ step' = loop_i')

\* the saving is reached once: from the loop after iters steps, by the prune,
\* or straight from the start when iters <= 0, without a prune
C14_LoopLeftOnce ==
    (pc' = "save_model" /\ pc # "save_model") =>
        \/ pc = "train_loop" /\ opt.iters > 0 /\ step = opt.iters
        \/ pc = "main" /\ opt.iters <= 0 /\ cloud' = cloud

\* from the prune on, neither the step counter nor the cloud changes
C14_NothingTrainsAfterPrune ==
    pc \in {"save_model", "save_geo_tex", "done"} =>
        (step' = step /\ cloud' = cloud /\ log' = log
           /\ pc' \in {"save_model", "save_geo_tex", "done", "crashed"})

\* C14: non-interactive train(iters) with iters > 0 runs exactly iters training
\* iterations (step = iters when the loop is left), then prunes once, then
\* saves the checkpoint and after it the textured mesh; no training step runs
\* after the prune; with iters <= 0 no training step (and no prepare_train)
\* runs and the two files are saved all the same.  The run always ends: it
\* returns, or a training step or the texture baking raises.
C14_TrainRunsItersThenSaves ==
    /\ [](pc \in {"save_model", "save_geo_tex", "done"} =>
             IF opt.iters > 0
             THEN step = opt.iters /\ loop_i = opt.iters /\ log.valid /\ log.step = opt.iters
             ELSE step = 0 /\ loop_i = 0 /\ ~log.valid /\ ~optimizer)
    /\ [](pc \in {"main", "train_loop", "save_model"} => \A m \in Modes : artifacts[m] = None)
    /\ [](pc = "save_geo_tex" => (artifacts["model"] = <<cloud>> /\ artifacts["geo+tex"] = None))
    /\ [](pc = "done" => (artifacts["model"] = <<cloud>> /\ artifacts["geo+tex"] = <<cloud>>))
    /\ [](artifacts["geo"] = None)
    /\ [][C14_StepInsideLoop]_vars
    /\ [][C14_LoopLeftOnce]_vars
    /\ [][C14_NothingTrainsAfterPrune]_vars
    /\ <>(pc \in {"done", "crashed"})

\* C14 witness: the run of MaxIters iterations has returned, both files
\* written after the last step.
C14_Witness ==
    /\ pc = "done" /\ opt.iters = MaxIters /\ step = MaxIters /\ log.step = MaxIters
    /\ artifacts["model"] # None /\ artifacts["geo+tex"] # None

\* the frame loop leaves its head: the test of self.training was made
C15_StartsIffFlagSet ==
    (pc = "frame" /\ pc' # "frame") =>
        IF training THEN pc' = "frame_step" /\ step' = step /\ log' = log
        ELSE pc' = "frame_test" /\ step' = step /\ log' = log

\* a step in progress is left only by the step's own end, whatever the flag is
C15_StepRunsToItsEnd ==
    pc = "frame_step" =>
        \/ pc' = "frame_step" /\ step' = step /\ log' = log /\ cloud' = cloud
        \/ /\ TrainStepRan /\ step' = step + 1 /\ log' = StepLog(step')
           /\ training' = training
           /\ IF log'.committed THEN pc' = "frame_test" /\ need_update'
              ELSE pc' = "crashed"

\* an interactive step is taken only from inside train_step
C15_NoStepWithoutTest == (TrainStepRan /\ opt.gui) => pc = "frame_step"

\* C15: in interactive mode a training step starts in a frame iff the training
\* flag is true when the frame loop tests it; clearing the flag does not
\* interrupt a step in progress (the step entered goes on to its backward
\* pass, optimizer step and densification phase, the flag being what it may),
\* and no further step starts until the flag is set again.
C15_CooperativeCancel ==
    /\ [][C15_StartsIffFlagSet]_vars
    /\ [][C15_StepRunsToItsEnd]_vars
    /\ [][C15_NoStepWithoutTest]_vars
    /\ [](pc = "frame_step" => ENABLED RenderTrainStep)

\* C15 witness: a step is in progress and the flag has been cleared.
C15_Witness == pc = "frame_step" /\ ~training /\ step > 0 /\ log.valid

\* C16 (as claimed): after prepare_train the rig holds exactly one camera per
\* entry of the pose archive, camera i being posed from archive entry i (its
\* azimuth), so that reference tile i corresponds to camera i.
C16_RigPosedFromArchive ==
    optimizer =>
        /\ Len(cameras) = Len(opt.camerasFile.azs)
        /\ \A i \in 1..Len(cameras) : cameras[i].azimuth = opt.camerasFile.azs[i]

\* C17 (as claimed): when no atlas texel is valid after projection, hole filling
\* is a no-op: save_model('geo+tex') completes without raising and leaves the
\* atlas colours as they are.
C17_EmptyDonorsNoOp ==
    (bake_pc \in {"done", "crashed"} /\ \A t \in Texels : cnt[t] = 0) =>
        (bake_pc = "done" /\ \A t \in Texels : albedo[t] = 0)

\* save_model has written a file in this transition
SaveRan == artifacts' # artifacts

\* C18: save_model, in every mode ('model', 'geo', 'geo+tex'), leaves the step
\* counter, the training flag, the optimizer and the primitive cloud unchanged,
\* and what it writes is never read by a later training step: a step's outcome
\* is that of the training state alone, and training leaves the files alone.
C18_SaveModelFrame ==
    /\ [][SaveRan => (/\ step' = step /\ training' = training /\ optimizer' = optimizer
                       /\ cloud' = cloud /\ log' = log /\ pc' = pc
                       /\ \E m \in Modes : artifacts' = [artifacts EXCEPT ![m] = <<cloud>>])]_vars
    /\ [][TrainStepRan => (log' = StepLog(step') /\ artifacts' = artifacts)]_vars

\* C18 witness: training went on after the three files were written: a step
\* has run since the checkpoint, whose cloud differs from the current one.
C18_Witness ==
    /\ artifacts["model"] = <<0>> /\ artifacts["geo"] = <<0>> /\ artifacts["geo+tex"] = <<0>>
    /\ cloud = 1 /\ training /\ log.valid /\ log.committed /\ step = log.step /\ step > 1

\* C19 (as claimed): for all weights and step ratios the known-view contribution
\* to the loss is known_view_weight * step_ratio * (mse_rgb +
\* known_view_mask_weight * mse_alpha): the mask term is scaled by both weights.
C19_MaskTermScaledByBothWeights ==
    [][(TrainStepRan /\ log'.known) =>
          LET out == Render(cloud, "fixed_cam")
              mse_rgb == MSE(out.image, input_img_torch[1])
              mse_alpha == MSE(out.alpha, input_img_torch[2])
          IN  log'.known_rgb + log'.known_mask
                = opt.known_view_weight * log'.step_ratio[1]
                    * (mse_rgb + opt.known_view_mask_weight * mse_alpha)]_vars

\* C19 (amended): for all weights and step ratios the known-view contribution
\* is step_ratio * (known_view_weight * mse_rgb + known_view_mask_weight *
\* mse_alpha): the rgb term is scaled by known_view_weight, the mask term by
\* known_view_mask_weight alone.
C19_MaskTermScaledByMaskWeight ==
    [][TrainStepRan =>
          LET out == Render(cloud, "fixed_cam")
              mse_rgb == MSE(out.image, input_img_torch[1])
              mse_alpha == MSE(out.alpha, input_img_torch[2])
          IN  IF log'.known
              THEN /\ log'.known_rgb = opt.known_view_weight * log'.step_ratio[1] * mse_rgb
                   /\ log'.known_mask
                        = opt.known_view_mask_weight * log'.step_ratio[1] * mse_alpha
                   /\ log'.known_rgb + log'.known_mask
                        = log'.step_ratio[1] * (opt.known_view_weight * mse_rgb
                                                 + opt.known_view_mask_weight * mse_alpha)
              ELSE log'.known_rgb = 0 /\ log'.known_mask = 0]_vars

\* C19 witness: a step with weights 2 and 3 and a render off the reference
\* mask, whose mask term is 3 * step_ratio, not 6 * step_ratio.
C19_Witness ==
    /\ log.valid /\ log.known /\ log.step = 4
    /\ opt.known_view_weight = 2 /\ opt.known_view_mask_weight = 3
    /\ log.known_rgb = 8 /\ log.known_mask = 12

\* the positions within n steps of the cross-shaped element from t, the ones
\* beyond the border of the atlas standing for 0
Within(t, n) ==
    {IF r >= 1 /\ r <= AtlasSize /\ c >= 1 /\ c <= AtlasSize THEN T(r, c) ELSE 0 :
        <<r, c>> \in {x \in ((Row(t) - n)..(Row(t) + n)) \X ((Col(t) - n)..(Col(t) + n)) :
                        (IF x[1] > Row(t) THEN x[1] - Row(t) ELSE Row(t) - x[1])
                          + (IF x[2] > Col(t) THEN x[2] - Col(t) ELSE Col(t) - x[2]) <= n}}

\* C20 (as claimed): the donor region used for hole filling is the erosion of
\* the valid-texel mask: a texel is a donor iff it remains set after eroding the
\* valid mask, and every donor is a valid texel.
C20_DonorsAreErosion ==
    bake_pc = "done" =>
        \E valid \in {{t \in Texels : cnt[t] > 0}} :
            /\ search_region = Erosion(valid, ErosionIters)
            /\ search_region \subseteq valid

\* C20 (amended): the donor region is the valid mask minus its 3-iteration
\* erosion: a texel is a donor iff it is valid and does not remain set after
\* eroding the valid mask, i.e. iff it is valid and some position within 3
\* steps of it is not valid or lies beyond the atlas border; every donor is a
\* valid texel.
C20_DonorsAreValidRim ==
    bake_pc = "done" =>
        \E valid \in {{t \in Texels : cnt[t] > 0}} :
            /\ search_region \subseteq valid
            /\ \A t \in valid :
                  t \in search_region <=> \E u \in Within(t, ErosionIters) : u \notin valid
            /\ search_region = valid \ Erosion(valid, ErosionIters)

\* C20 witness: of the valid 7 x 7 block, the centre (4,7) survives the erosion
\* and is no donor, the rim texel (4,4) is one.
C20_Witness ==
    /\ bake_pc = "done"
    /\ cnt[T(4, 7)] > 0 /\ T(4, 7) \notin search_region
    /\ cnt[T(4, 4)] > 0 /\ T(4, 4) \in search_region

\* C21: texture baking processes exactly 26 viewpoints in one fixed order: each
\* of the elevations 0, -45, +45 (in this order of groups) paired exactly once
\* with each of the 8 azimuths 0, 45, ..., 315 (modulo 360), then the two
\* near-polar viewpoints at elevation -89.9 and +89.9; the order is the same on
\* every call.
C21_FixedViewpointOrder ==
    /\ bake_pc \in {"fill", "done", "crashed"} => Len(poses) = 26
    /\ bake_pc # "idle" =>
          /\ Len(poses) = view /\ view <= 26
          /\ \A k \in 1..Len(poses) :
                /\ k <= 8 => poses[k][1] = 0
                /\ (k > 8 /\ k <= 16) => poses[k][1] = -450
                /\ (k > 16 /\ k <= 24) => poses[k][1] = 450
                /\ k <= 24 => poses[k][2] % 450 = 0
                /\ k = 25 => poses[k] = <<-899, 0>>
                /\ k = 26 => poses[k] = <<899, 0>>
                \* the same azimuths in the same order, in each group and each call
                /\ k <= 24 =>
                      poses[k][2] = <<0, 450, -450, 900, -900, 1350, -1350, 1800>>[((k - 1) % 8) + 1]
          /\ \A j, k \in 1..Min(Len(poses), 24) :
                (j # k /\ poses[j][1] = poses[k][1])
                    => poses[j][2] % 3600 # poses[k][2] % 3600
          /\ Len(poses) >= 24 =>
                \A e \in {0, -450, 450}, a \in {0, 450, 900, 1350, 1800, 2250, 2700, 3150} :
                    \E k \in 1..24 : poses[k][1] = e /\ poses[k][2] % 3600 = a

\* C21 witness: a second call of save_model has gone through its 26 viewpoints.
C21_Witness ==
    /\ artifacts["geo+tex"] # None /\ bake_pc = "project" /\ Len(poses) = 26
    /\ poses[3] = <<0, -450>> /\ poses[26] = <<899, 0>>

\* the order train_step gives to the calls of one pass
CallOrder == <<"step += 1", "update_learning_rate", "render", "backward",
               "optimizer.step", "zero_grad", "max_radii2D",
               "add_densification_stats", "densify_and_prune", "reset_opacity">>

Occurrences(tr, call) == {i \in DOMAIN tr : tr[i] = call}

\* C22: within a training iteration the order is: step counter advance and
\* learning-rate update, all the renders, backward pass, optimizer step,
\* gradient clearing, then the max-radius and densification statistics, then
\* densify_and_prune, then reset_opacity; on a step that is a multiple of both
\* intervals densify_and_prune runs before reset_opacity, and no render of the
\* iteration comes after the cloud is resized.
C22_OrderWithinStep ==
    (log.valid /\ log.committed) =>
        LET tr == log.trace
        IN  /\ \A i \in DOMAIN tr : \E m \in DOMAIN CallOrder : tr[i] = CallOrder[m]
            /\ \A m, n \in DOMAIN CallOrder :
                  m < n => \A i \in Occurrences(tr, CallOrder[m]),
                              j \in Occurrences(tr, CallOrder[n]) : i < j
            /\ \A m \in DOMAIN CallOrder :
                  CallOrder[m] # "render" => Cardinality(Occurrences(tr, CallOrder[m])) <= 1
            /\ tr[1] = "step += 1" /\ tr[2] = "update_learning_rate"
            /\ Cardinality(Occurrences(tr, "render")) = Len(log.renders)
            /\ \A call \in {"backward", "optimizer.step", "zero_grad"} :
                  Occurrences(tr, call) # {}
            /\ (Occurrences(tr, "max_radii2D") # {}) = log.stats
            /\ (Occurrences(tr, "add_densification_stats") # {}) = log.stats
            /\ (Occurrences(tr, "densify_and_prune") # {}) = log.densify
            /\ (Occurrences(tr, "reset_opacity") # {}) = log.reset_opacity
            /\ (/\ log.step >= opt.density_start_iter /\ log.step <= opt.density_end_iter
                /\ log.step % opt.densification_interval = 0
                /\ log.step % opt.opacity_reset_interval = 0)
                  => \E i, j \in DOMAIN tr :
                        /\ tr[i] = "densify_and_prune" /\ tr[j] = "reset_opacity" /\ i < j
                        /\ \A k \in Occurrences(tr, "render") : k < i

\* C22 witness: a step that is a multiple of both intervals, inside the window,
\* has run with the known view rendered.
C22_Witness ==
    /\ log.valid /\ log.committed /\ log.known
    /\ log.step % opt.densification_interval = 0
    /\ log.step % opt.opacity_reset_interval = 0
    /\ log.densify /\ log.reset_opacity
    /\ Len(log.trace) = Len(log.renders) + 9

\* a pass of train_step is entered with the optimizer and the rig in place
C23_StepIsPrepared == TrainStepRan => (optimizer /\ cameras # <<>>)

\* the training flag is raised only by a toggle that has run prepare_train
C23_FlagRaisedByPreparedStart ==
    (~training /\ training') => (optimizer' /\ step' = 0 /\ log' = NoLog)

C23_RestartClearsFlag == CallbackRestart => ~training'

\* C23: train_step never runs before training has been prepared: in the
\* interactive run the training flag is true only after a start toggle that
\* completed prepare_train, restart always leaves the flag false, and in the
\* non-interactive run prepare_train precedes the first step; the optimizer is
\* set at every train_step, whatever the sequence of UI events.
C23_PreparedBeforeStep ==
    /\ [](training => optimizer)
    /\ [](pc \in {"frame_step", "train_loop"} => optimizer)
    /\ [][C23_StepIsPrepared /\ C23_FlagRaisedByPreparedStart /\ C23_RestartClearsFlag]_vars

\* C23 witness: the interactive loop has run a first step after a start toggle.
C23_Witness ==
    /\ opt.gui /\ training /\ optimizer
    /\ pc = "frame_test" /\ log.valid /\ log.step = 1

\* test_step has run: the frame loop goes from its call back to the loop's head
TestStepRan == pc = "frame_test" /\ pc' = "frame"

\* the image test_step makes of the present state
PreviewNow ==
    Preview(cloud, cam, mode, overlay_input_img, overlay_input_img_ratio, input_img)

C24_IdleTestStepKeepsBuffer ==
    (TestStepRan /\ ~need_update) => (buffer_image' = buffer_image /\ ~need_update')

C24_DueTestStepRenders ==
    (TestStepRan /\ need_update) => (buffer_image' = PreviewNow /\ ~need_update')

C24_ChangesRaiseFlag ==
    /\ (TrainStepRan /\ pc' # "crashed") => need_update'
    /\ (cam' # cam \/ mode' # mode \/ input_img' # input_img
         \/ overlay_input_img' # overlay_input_img
         \/ overlay_input_img_ratio' # overlay_input_img_ratio) => need_update'

\* C24: the preview is re-rendered only on demand: test_step with need_update
\* false leaves buffer_image as it is; test_step with need_update true renders
\* and clears the flag; every train_step and every change of the camera, the
\* render mode, the overlay or the input image sets need_update, so that with
\* the flag clear the preview shows the present camera, mode, overlay and input
\* image, and the first test_step after such an event re-renders.
C24_PreviewOnDemand ==
    /\ [][C24_IdleTestStepKeepsBuffer /\ C24_DueTestStepRenders /\ C24_ChangesRaiseFlag]_vars
    /\ [](~need_update =>
            /\ buffer_image.cam = cam /\ buffer_image.mode = mode
            /\ buffer_image.overlay = PreviewNow.overlay)

\* C24 witness: the camera was moved and the overlay put on an input image
\* while training; the frame is at test_step with the flag set and the buffer
\* still showing the old camera.
C24_Witness ==
    /\ pc = "frame_test" /\ need_update /\ training /\ log.valid
    /\ cam = 1 /\ buffer_image.cam = 0
    /\ overlay_input_img /\ input_img # None /\ buffer_image.overlay = None

====
